---- MODULE Spec2Model ----
(***************************************************************************)
(* kdm-settlement-manager: the three Lambda handlers over the user-data    *)
(* table (infrastructure/lambda/get_user_data.py, save_user_data.py,       *)
(* delete_user_data.py).                                                    *)
(*                                                                          *)
(* State: the DynamoDB table keyed by (user_id, settlement_id), a logical   *)
(* clock for updated_at, and a record of the last invocation (handler,      *)
(* event, outcome).  One action per handler; an action is the whole         *)
(* lambda_handler call, its try/except boundary included.                   *)
(***************************************************************************)
EXTENDS Integers, Sequences, FiniteSets, TLC

VARIABLES table, now, handler, event, outcome, written

vars == <<table, now, handler, event, outcome, written>>

(***************************************************************************)
(* Bounds and sample domains                                                *)
(***************************************************************************)
\* number of records the clock lets the model store (updated_at values)
MaxNow == 2

Users == {"u1", "u2"}
\* settlement ids in the table's sort-key order
SidOrder == <<"s1", "s2">>
Sids == {SidOrder[i] : i \in 1..Len(SidOrder)}
Keys == Users \X Sids

(***************************************************************************)
(* JSON values.  A number is kept in tenths so that a fractional part can   *)
(* be told from none: int 42 is [kind |-> "int", tenths |-> 420], the float *)
(* 4.2 is [kind |-> "float", tenths |-> 42].  A payload is a sequence of    *)
(* leaves (the values of a flat JSON document, in order).                   *)
(***************************************************************************)
JInt(n) == [kind |-> "int", tenths |-> 10 * n]
JFloat(t) == [kind |-> "float", tenths |-> t]
JDecimal(t) == [kind |-> "decimal", tenths |-> t]

Payloads == { <<JInt(42)>>, <<JInt(7), JInt(42)>>, <<JInt(7), JFloat(42)>> }

\* event['body']: key absent, JSON null, or a string that parses to doc or not at all
AbsentBody == [kind |-> "absent", valid |-> FALSE, doc |-> <<>>]
NullBody == [kind |-> "null", valid |-> FALSE, doc |-> <<>>]
InvalidBody == [kind |-> "str", valid |-> FALSE, doc |-> <<>>]
JsonBody(p) == [kind |-> "str", valid |-> TRUE, doc |-> p]

(***************************************************************************)
(* Results of Python expressions: a value or a raised exception.           *)
(***************************************************************************)
Return(v) == [exc |-> "none", val |-> v]
Raise(e, msg) == [exc |-> e, val |-> msg]

\* isinstance(e, cls) for the exception classes the handlers meet
IsInstance(e, cls) ==
    CASE cls = "Exception" -> e # "none"
      [] cls = "ValueError" -> e \in {"ValueError", "JSONDecodeError"}
      [] cls = "JSONDecodeError" -> e = "JSONDecodeError"
      [] OTHER -> e = cls

(***************************************************************************)
(* Events.  A flat record: each field is "absent" (key missing), "null"    *)
(* (None), "dict", or a value; a nested field is "absent" whenever the      *)
(* field holding it is not a dict.                                          *)
(*   requestContext / authorizer / claims : "absent" | "null" | "dict"      *)
(*   sub            : "absent" | "" | a user                                *)
(*   headers        : "absent" | "null" | "dict"                            *)
(*   auth           : "absent" | "Basic" | "Bearer"  (Authorization scheme) *)
(*   segs           : number of '.'-separated segments of the token         *)
(*   plen           : length of the token's payload segment                 *)
(*   pjson          : what the decoded payload is: "invalid" | "array" |    *)
(*                    "object"                                              *)
(*   psub           : the decoded object's sub: "absent" | "" | a user      *)
(*   pathParameters : "absent" | "null" | "dict"                            *)
(*   settlement_id  : "absent" | "" | a settlement id                       *)
(*   body           : see above                                             *)
(***************************************************************************)
NoEvent ==
    [requestContext |-> "absent", authorizer |-> "absent", claims |-> "absent",
     sub |-> "absent", headers |-> "absent", auth |-> "absent", segs |-> 0,
     plen |-> 0, pjson |-> "absent", psub |-> "absent",
     pathParameters |-> "absent", settlement_id |-> "absent", body |-> AbsentBody]

\* the authorizer part of an event
WithClaims(ev, s) ==
    [ev EXCEPT !.requestContext = "dict", !.authorizer = "dict", !.claims = "dict", !.sub = s]
\* an Authorization: Bearer h.p.s header whose payload decodes to {"sub": s}
WithToken(ev, len, s) ==
    [ev EXCEPT !.headers = "dict", !.auth = "Bearer", !.segs = 3, !.plen = len,
               !.pjson = "object", !.psub = s]
WithPath(ev, sid) == [ev EXCEPT !.pathParameters = "dict", !.settlement_id = sid]
WithBody(ev, b) == [ev EXCEPT !.body = b]

(***************************************************************************)
(* extract_user_id, one per handler file                                    *)
(***************************************************************************)
\* event.get('requestContext', {}).get('authorizer', {}).get('claims', {}).get('sub')
ClaimsSub(ev) ==
    IF ev.requestContext = "null" \/ ev.authorizer = "null" \/ ev.claims = "null"
    THEN Raise("AttributeError", "'NoneType' object has no attribute 'get'")
    ELSE Return(ev.sub)

\* a Python string is truthy when it is there and not empty
Truthy(s) == s \notin {"absent", ""}

\* base64.urlsafe_b64decode of a segment of dataLen characters padded to paddedLen
urlsafe_b64decode(dataLen, paddedLen) ==
    IF paddedLen % 4 # 0 \/ dataLen % 4 = 1
    THEN Raise("binascii.Error", "Incorrect padding")
    ELSE Return("bytes")

\* the padding restored before decoding
PaddedLen(len) ==
    LET padding == 4 - (len % 4)
    IN IF padding # 4 THEN len + padding ELSE len

\* the try block that splits and decodes the token
DecodeToken(ev) ==
    IF ev.segs # 3 THEN Raise("ValueError", "Invalid JWT format")
    ELSE IF urlsafe_b64decode(ev.plen, PaddedLen(ev.plen)).exc # "none"
         THEN urlsafe_b64decode(ev.plen, PaddedLen(ev.plen))
    ELSE IF ev.pjson = "invalid" THEN Raise("JSONDecodeError", "Expecting value")
    ELSE IF ev.pjson # "object" THEN Raise("AttributeError", "object has no attribute 'get'")
    ELSE IF ~Truthy(ev.psub) THEN Raise("ValueError", "User ID not found in token")
    ELSE Return(ev.psub)

\* get_user_data.py: the claims first, then the bearer token
get_extract_user_id(ev) ==
    LET c == ClaimsSub(ev)
    IN IF c.exc # "none" THEN c
       ELSE IF Truthy(c.val) THEN Return(c.val)
       ELSE IF ev.headers = "null"
            THEN Raise("AttributeError", "'NoneType' object has no attribute 'get'")
       ELSE IF ev.auth # "Bearer"
            THEN Raise("ValueError", "Missing or invalid Authorization header")
       ELSE LET d == DecodeToken(ev)
            IN IF d.exc # "none" THEN Raise("ValueError", "Invalid token") ELSE d

\* save_user_data.py: the same lines again
save_extract_user_id(ev) ==
    LET c == ClaimsSub(ev)
    IN IF c.exc # "none" THEN c
       ELSE IF Truthy(c.val) THEN Return(c.val)
       ELSE IF ev.headers = "null"
            THEN Raise("AttributeError", "'NoneType' object has no attribute 'get'")
       ELSE IF ev.auth # "Bearer"
            THEN Raise("ValueError", "Missing or invalid Authorization header")
       ELSE LET d == DecodeToken(ev)
            IN IF d.exc # "none" THEN Raise("ValueError", "Invalid token") ELSE d

\* delete_user_data.py: the claims only
delete_extract_user_id(ev) ==
    LET c == ClaimsSub(ev)
    IN IF c.exc # "none" THEN c
       ELSE IF ~Truthy(c.val)
            THEN Raise("ValueError", "User ID not found in authorization context")
       ELSE Return(c.val)

\* (event.get('pathParameters') or {}).get('settlement_id')
SettlementId(ev) == IF ev.pathParameters = "dict" THEN ev.settlement_id ELSE "absent"

(***************************************************************************)
(* The table.  table[<<u, s>>] is <<>> when no item has that key, else the  *)
(* one item <<[user_id, settlement_id, data, updated_at]>>; data is held    *)
(* in the stored form, every number a Decimal.                              *)
(***************************************************************************)
NoItem == <<>>
EmptyTable == [k \in Keys |-> NoItem]

\* boto3's TypeSerializer on the item's data: an int becomes a Number, a
\* float is refused (TypeError: Float types are not supported)
HasFloat(doc) == \E i \in 1..Len(doc) : doc[i].kind = "float"
Serialize(doc) == [i \in 1..Len(doc) |-> JDecimal(doc[i].tenths)]

\* a storage call's result: the exception raised if any, the items returned,
\* and the table afterwards.  ok = FALSE is the service failing the call.
StorageResult(e, items, tbl) == [exc |-> e, items |-> items, table |-> tbl]

get_item(tbl, u, s, ok) ==
    IF ~ok THEN StorageResult("ClientError", <<>>, tbl)
    ELSE StorageResult("none", tbl[<<u, s>>], tbl)

RECURSIVE QueryFrom(_, _, _)
QueryFrom(tbl, u, i) ==
    IF i > Len(SidOrder) THEN <<>>
    ELSE tbl[<<u, SidOrder[i]>>] \o QueryFrom(tbl, u, i + 1)

\* mutant: a scan of the table, the key condition left out
query_scan(tbl, u, ok) ==
    IF ~ok THEN StorageResult("ClientError", <<>>, tbl)
    ELSE StorageResult("none", QueryFrom(tbl, "u1", 1) \o QueryFrom(tbl, "u2", 1), tbl)

\* KeyConditionExpression user_id = :user_id, in sort-key order
query(tbl, u, ok) ==
    IF ~ok THEN StorageResult("ClientError", <<>>, tbl)
    ELSE StorageResult("none", QueryFrom(tbl, u, 1), tbl)

\* mutant: the partition key left out of the item's key
put_item_by_settlement(tbl, item, ok) ==
    IF HasFloat(item.data) THEN StorageResult("TypeError", <<>>, tbl)
    ELSE IF ~ok THEN StorageResult("ClientError", <<>>, tbl)
    ELSE StorageResult("none", <<>>,
            [tbl EXCEPT ![<<"u1", item.settlement_id>>] =
                <<[item EXCEPT !.data = Serialize(item.data)]>>])

put_item(tbl, item, ok) ==
    IF HasFloat(item.data) THEN StorageResult("TypeError", <<>>, tbl)
    ELSE IF ~ok THEN StorageResult("ClientError", <<>>, tbl)
    ELSE StorageResult("none", <<>>,
            [tbl EXCEPT ![<<item.user_id, item.settlement_id>>] =
                <<[item EXCEPT !.data = Serialize(item.data)]>>])

\* mutant: a delete conditioned on the item being there
delete_item_if_exists(tbl, u, s, ok) ==
    IF ~ok THEN StorageResult("ClientError", <<>>, tbl)
    ELSE IF tbl[<<u, s>>] = NoItem THEN StorageResult("ConditionalCheckFailedException", <<>>, tbl)
    ELSE StorageResult("none", <<>>, [tbl EXCEPT ![<<u, s>>] = NoItem])

delete_item(tbl, u, s, ok) ==
    IF ~ok THEN StorageResult("ClientError", <<>>, tbl)
    ELSE StorageResult("none", <<>>, [tbl EXCEPT ![<<u, s>>] = NoItem])

\* a call a handler made on the table handle: whether the service served it
\* and what the call raised
Op(name, u, s, ok, e) ==
    [op |-> name, user_id |-> u, settlement_id |-> s, served |-> ok, exc |-> e]

(***************************************************************************)
(* Responses                                                                *)
(***************************************************************************)
CORS ==
    { <<"Access-Control-Allow-Origin", "*">>,
      <<"Access-Control-Allow-Headers", "Content-Type,Authorization">>,
      <<"Access-Control-Allow-Methods", "GET,POST,DELETE,OPTIONS">> }
\* a response dict with no 'headers' key
NoHeaders == {}

\* DecimalEncoder.default: float(o) if o % 1 else int(o)
DecimalEncoder_default(o) ==
    IF o.kind = "decimal"
    THEN IF o.tenths % 10 # 0 THEN JFloat(o.tenths) ELSE [kind |-> "int", tenths |-> o.tenths]
    ELSE o

\* json.dumps(item, cls=DecimalEncoder), read back by the caller
DumpItem(item) ==
    [item EXCEPT !.data = [i \in 1..Len(item.data) |-> DecimalEncoder_default(item.data[i])]]
DumpItems(items) == [i \in 1..Len(items) |-> DumpItem(items[i])]

ErrorBody(msg) ==
    [kind |-> "error", text |-> msg, user_id |-> "absent", settlement_id |-> "absent",
     items |-> <<>>]
MessageBody(msg, u, s) ==
    [kind |-> "message", text |-> msg, user_id |-> u, settlement_id |-> s, items |-> <<>>]
ItemBody(item) ==
    [kind |-> "item", text |-> "", user_id |-> "absent", settlement_id |-> "absent",
     items |-> <<DumpItem(item)>>]
ItemsBody(items) ==
    [kind |-> "items", text |-> "", user_id |-> "absent", settlement_id |-> "absent",
     items |-> DumpItems(items)]

Response(status, hdrs, b) == [statusCode |-> status, headers |-> hdrs, body |-> b]
\* an exception no except clause caught: the invocation returns no response
Escaped(e) == Response(0, NoHeaders, ErrorBody(e))

\* what one invocation did: the identity it resolved, its response, the
\* storage calls it made, the table it left
Result(uid, resp, ops, tbl) == [uid |-> uid, response |-> resp, ops |-> ops, table |-> tbl]

(***************************************************************************)
(* get_user_data.lambda_handler                                             *)
(***************************************************************************)
\* its except clauses, in order
get_except(e, uid, ops, tbl) ==
    IF IsInstance(e.exc, "ValueError")
    THEN Result(uid, Response(401, CORS, ErrorBody(e.val)), ops, tbl)
    ELSE IF IsInstance(e.exc, "Exception")
    THEN Result(uid, Response(500, CORS, ErrorBody("Internal server error")), ops, tbl)
    ELSE Result(uid, Escaped(e.exc), ops, tbl)

get_lambda_handler(ev, tbl, ok) ==
    LET uid == get_extract_user_id(ev)
        settlement_id == SettlementId(ev)
    IN IF uid.exc # "none" THEN get_except(uid, uid, <<>>, tbl)
       ELSE IF Truthy(settlement_id)
       THEN LET r == get_item(tbl, uid.val, settlement_id, ok)
                ops == <<Op("get_item", uid.val, settlement_id, ok, r.exc)>>
            IN IF r.exc # "none" THEN get_except(Raise(r.exc, ""), uid, ops, r.table)
               ELSE IF r.items = NoItem
               THEN Result(uid, Response(404, CORS, ErrorBody("Settlement not found")),
                           ops, r.table)
               ELSE Result(uid, Response(200, CORS, ItemBody(r.items[1])), ops, r.table)
       ELSE LET r == query(tbl, uid.val, ok)
                ops == <<Op("query", uid.val, "absent", ok, r.exc)>>
            IN IF r.exc # "none" THEN get_except(Raise(r.exc, ""), uid, ops, r.table)
               ELSE Result(uid, Response(200, CORS, ItemsBody(r.items)), ops, r.table)

(***************************************************************************)
(* save_user_data.lambda_handler                                            *)
(***************************************************************************)
\* mutant: the ValueError clause ahead of the JSONDecodeError clause
save_except_value_error_first(e, uid, ops, tbl) ==
    IF IsInstance(e.exc, "ValueError")
    THEN Result(uid, Response(401, CORS, ErrorBody(e.val)), ops, tbl)
    ELSE IF IsInstance(e.exc, "JSONDecodeError")
    THEN Result(uid, Response(400, CORS, ErrorBody("Invalid JSON in request body")), ops, tbl)
    ELSE IF IsInstance(e.exc, "Exception")
    THEN Result(uid, Response(500, CORS, ErrorBody("Internal server error")), ops, tbl)
    ELSE Result(uid, Escaped(e.exc), ops, tbl)

save_except(e, uid, ops, tbl) ==
    IF IsInstance(e.exc, "JSONDecodeError")
    THEN Result(uid, Response(400, CORS, ErrorBody("Invalid JSON in request body")), ops, tbl)
    ELSE IF IsInstance(e.exc, "ValueError")
    THEN Result(uid, Response(401, CORS, ErrorBody(e.val)), ops, tbl)
    ELSE IF IsInstance(e.exc, "Exception")
    THEN Result(uid, Response(500, CORS, ErrorBody("Internal server error")), ops, tbl)
    ELSE Result(uid, Escaped(e.exc), ops, tbl)

\* mutant: if settlement_id is None
save_missing_settlement_id_is_none(settlement_id) == settlement_id = "absent"

\* if not settlement_id
save_missing_settlement_id(settlement_id) == ~Truthy(settlement_id)

\* json.loads(event.get('body', '{}'))
LoadBody(ev) ==
    IF ev.body.kind = "absent" THEN Return(<<>>)
    ELSE IF ev.body.kind = "null"
    THEN Raise("TypeError", "the JSON object must be str, bytes or bytearray, not NoneType")
    ELSE IF ~ev.body.valid THEN Raise("JSONDecodeError", "Expecting value")
    ELSE Return(ev.body.doc)

save_lambda_handler(ev, tbl, ok, utcnow) ==
    LET uid == save_extract_user_id(ev)
        settlement_id == SettlementId(ev)
        body == LoadBody(ev)
    IN IF uid.exc # "none" THEN save_except(uid, uid, <<>>, tbl)
       ELSE IF save_missing_settlement_id(settlement_id)
       THEN Result(uid, Response(400, NoHeaders, ErrorBody("settlement_id is required")),
                   <<>>, tbl)
       ELSE IF body.exc # "none" THEN save_except(body, uid, <<>>, tbl)
       ELSE LET item == [user_id |-> uid.val, settlement_id |-> settlement_id,
                         data |-> body.val, updated_at |-> utcnow]
                r == put_item(tbl, item, ok)
                ops == <<Op("put_item", uid.val, settlement_id, ok, r.exc)>>
            IN IF r.exc # "none" THEN save_except(Raise(r.exc, ""), uid, ops, r.table)
               ELSE Result(uid,
                           Response(200, CORS,
                                    MessageBody("Data saved successfully", uid.val, settlement_id)),
                           ops, r.table)

(***************************************************************************)
(* delete_user_data.lambda_handler                                          *)
(***************************************************************************)
\* mutant: the catch-all clause left out
delete_except_value_error_only(e, uid, ops, tbl) ==
    IF IsInstance(e.exc, "ValueError")
    THEN Result(uid, Response(401, NoHeaders, ErrorBody(e.val)), ops, tbl)
    ELSE Result(uid, Escaped(e.exc), ops, tbl)

delete_except(e, uid, ops, tbl) ==
    IF IsInstance(e.exc, "ValueError")
    THEN Result(uid, Response(401, NoHeaders, ErrorBody(e.val)), ops, tbl)
    ELSE IF IsInstance(e.exc, "Exception")
    THEN Result(uid, Response(500, NoHeaders, ErrorBody("Internal server error")), ops, tbl)
    ELSE Result(uid, Escaped(e.exc), ops, tbl)

delete_lambda_handler(ev, tbl, ok) ==
    LET uid == delete_extract_user_id(ev)
        settlement_id == SettlementId(ev)
    IN IF uid.exc # "none" THEN delete_except(uid, uid, <<>>, tbl)
       ELSE IF ~Truthy(settlement_id)
       THEN Result(uid, Response(400, NoHeaders, ErrorBody("settlement_id is required")),
                   <<>>, tbl)
       ELSE LET r == delete_item(tbl, uid.val, settlement_id, ok)
                ops == <<Op("delete_item", uid.val, settlement_id, ok, r.exc)>>
            IN IF r.exc # "none" THEN delete_except(Raise(r.exc, ""), uid, ops, r.table)
               ELSE Result(uid,
                           Response(200, NoHeaders,
                                    MessageBody("Data deleted successfully", uid.val, settlement_id)),
                           ops, r.table)

(***************************************************************************)
(* The invocations.  written is the observer's ledger: for each key, the    *)
(* payload of the last Write answered 200 and not followed by a Delete      *)
(* answered 200, taken from the requests and the responses alone.           *)
(***************************************************************************)
NotWritten == [present |-> FALSE, doc |-> <<>>]
WrittenAs(p) == [present |-> TRUE, doc |-> p]

Ledger(w, h, ev, resp) ==
    IF resp.statusCode = 200 /\ resp.body.kind = "message"
    THEN [w EXCEPT ![<<resp.body.user_id, resp.body.settlement_id>>] =
            IF h = "save" THEN WrittenAs(LoadBody(ev).val) ELSE NotWritten]
    ELSE w

Invoke(h, ev, r) ==
    /\ table' = r.table
    /\ handler' = h
    /\ event' = ev
    /\ outcome' = [uid |-> r.uid, response |-> r.response, ops |-> r.ops]
    /\ written' = Ledger(written, h, ev, r.response)

GetUserData(ev, ok) ==
    \E r \in {get_lambda_handler(ev, table, ok)} :
        /\ Invoke("get", ev, r)
        /\ now' = now

\* the clock ticks with every record stored
SaveUserData(ev, ok) ==
    \E r \in {save_lambda_handler(ev, table, ok, now)} :
        /\ r.response.statusCode = 200 => now < MaxNow
        /\ Invoke("save", ev, r)
        /\ now' = IF r.response.statusCode = 200 THEN now + 1 ELSE now

DeleteUserData(ev, ok) ==
    \E r \in {delete_lambda_handler(ev, table, ok)} :
        /\ Invoke("delete", ev, r)
        /\ now' = now

NoOutcome == [uid |-> Return("absent"), response |-> Response(0, NoHeaders, ErrorBody("")), ops |-> <<>>]

(***************************************************************************)
(* Spec: any sequence of invocations by gateway-shaped requests.            *)
(***************************************************************************)
\* who calls: nobody, a user the authorizer vouches for, a user with a bare token
Callers ==
    {NoEvent} \cup {WithClaims(NoEvent, u) : u \in Users}
              \cup {WithToken(NoEvent, 10, "u1")}
PathRequests == Callers \cup {WithPath(c, s) : c \in Callers, s \in Sids}
Bodies == {InvalidBody} \cup {JsonBody(p) : p \in Payloads}
SaveRequests == {WithBody(e, b) : e \in PathRequests, b \in Bodies}

Init ==
    /\ table = EmptyTable
    /\ now = 0
    /\ handler = "none"
    /\ event = NoEvent
    /\ outcome = NoOutcome
    /\ written = [k \in Keys |-> NotWritten]

Next ==
    \/ \E ev \in PathRequests, ok \in BOOLEAN : GetUserData(ev, ok)
    \/ \E ev \in SaveRequests, ok \in BOOLEAN : SaveUserData(ev, ok)
    \/ \E ev \in PathRequests, ok \in BOOLEAN : DeleteUserData(ev, ok)

Spec == Init /\ [][Next]_vars

(***************************************************************************)
(* SpecGateway: one event of any shape the gateway or a direct caller can   *)
(* deliver (absent and null fields, every kind of token), handed to the     *)
(* three handlers in any order, over an empty or a populated table.         *)
(***************************************************************************)
ContextShapes ==
    {[requestContext |-> a, authorizer |-> "absent", claims |-> "absent", sub |-> "absent"] :
        a \in {"absent", "null", "dict"}}
    \cup {[requestContext |-> "dict", authorizer |-> a, claims |-> "absent", sub |-> "absent"] :
        a \in {"null", "dict"}}
    \cup {[requestContext |-> "dict", authorizer |-> "dict", claims |-> "null", sub |-> "absent"]}
    \cup {[requestContext |-> "dict", authorizer |-> "dict", claims |-> "dict", sub |-> a] :
        a \in {"absent", ""} \cup Users}

NoToken == [segs |-> 0, plen |-> 0, pjson |-> "absent", psub |-> "absent"]
\* payload segments of every length modulo 4
PayloadLens == {8, 9, 10, 11}
TokenShapes ==
    {[segs |-> 2, plen |-> 10, pjson |-> "object", psub |-> "u1"]}
    \cup {[segs |-> 3, plen |-> 10, pjson |-> j, psub |-> "absent"] : j \in {"invalid", "array"}}
    \cup {[segs |-> 3, plen |-> 10, pjson |-> "object", psub |-> a] : a \in {"absent", ""} \cup Users}
    \cup {[segs |-> 3, plen |-> n, pjson |-> "object", psub |-> "u1"] : n \in PayloadLens}
HeaderShapes ==
    {[headers |-> a, auth |-> "absent"] @@ NoToken : a \in {"absent", "null", "dict"}}
    \cup {[headers |-> "dict", auth |-> "Basic"] @@ NoToken}
    \cup {[headers |-> "dict", auth |-> "Bearer"] @@ t : t \in TokenShapes}

PathShapes ==
    {[pathParameters |-> a, settlement_id |-> "absent"] : a \in {"absent", "null", "dict"}}
    \cup {[pathParameters |-> "dict", settlement_id |-> a] : a \in {""} \cup Sids}

BodyShapes == {AbsentBody, NullBody, InvalidBody} \cup {JsonBody(p) : p \in Payloads}

GatewayEvents ==
    {c @@ h @@ p @@ [body |-> b] :
        c \in ContextShapes, h \in HeaderShapes, p \in PathShapes, b \in BodyShapes}

\* a table the handlers leave behind: u1 has saved {"amount": 42} as s1
SeededTable ==
    [EmptyTable EXCEPT ![<<"u1", "s1">>] =
        <<[user_id |-> "u1", settlement_id |-> "s1", data |-> Serialize(<<JInt(42)>>),
           updated_at |-> 0]>>]

InitGateway ==
    /\ event \in GatewayEvents
    /\ handler = "none"
    /\ outcome = NoOutcome
    /\ \/ /\ table = EmptyTable
          /\ now = 0
          /\ written = [k \in Keys |-> NotWritten]
       \/ /\ table = SeededTable
          /\ now = 1
          /\ written = [k \in Keys |-> IF k = <<"u1", "s1">> THEN WrittenAs(<<JInt(42)>>) ELSE NotWritten]

NextGateway ==
    \/ \E ok \in BOOLEAN : GetUserData(event, ok)
    \/ \E ok \in BOOLEAN : SaveUserData(event, ok)
    \/ \E ok \in BOOLEAN : DeleteUserData(event, ok)

SpecGateway == InitGateway /\ [][NextGateway]_vars

(***************************************************************************)
(* Properties                                                               *)
(***************************************************************************)
Invoked == handler # "none"
Status == outcome.response.statusCode
\* the identity the invoked handler resolved
ResolvedAs(u) == outcome.uid.exc = "none" /\ outcome.uid.val = u
Resolved == \E u \in Users : ResolvedAs(u)
\* the service failed the storage call the invocation made
StorageFailed == \E i \in 1..Len(outcome.ops) : ~outcome.ops[i].served
\* settlement_id missing: absent path parameters, absent key, or empty value
MissingSid(ev) == ev.pathParameters # "dict" \/ ev.settlement_id \in {"absent", ""}
RequestedSid(s) == event.pathParameters = "dict" /\ event.settlement_id = s
ValidJson(ev) == ev.body.kind = "str" /\ ev.body.valid
InvalidJson(ev) == ev.body.kind = "str" /\ ~ev.body.valid
\* the record a Read answered with: its key and its data
Answered(it) == [user_id |-> it.user_id, settlement_id |-> it.settlement_id, data |-> it.data]

\* C1 -- a Write by u to s with a valid JSON body p returns 200, and a Read of
\* s by u that follows with no Write or Delete of (u, s) in between returns 200
\* with the record (u, s, p), nothing kept from the record before.  (A storage
\* call the service itself fails is set aside.)
C1_WriteThenRead ==
    /\ (handler = "save" /\ Resolved /\ ~MissingSid(event) /\ ValidJson(event) /\ ~StorageFailed)
            => Status = 200
    /\ \A u \in Users, s \in Sids :
          (handler = "get" /\ ResolvedAs(u) /\ RequestedSid(s) /\ written[<<u, s>>].present
              /\ ~StorageFailed)
            => /\ Status = 200
               /\ outcome.response.body.kind = "item"
               /\ Answered(outcome.response.body.items[1])
                    = [user_id |-> u, settlement_id |-> s, data |-> written[<<u, s>>].doc]

\* C2 -- a Read by u with no settlement_id returns 200 with exactly the records
\* written for u and not since deleted, each once, and none of another user.
LedgerOf(u) ==
    {[user_id |-> u, settlement_id |-> s, data |-> written[<<u, s>>].doc] :
        s \in {x \in Sids : written[<<u, x>>].present}}
C2_ReadAll ==
    \A u \in Users :
        (handler = "get" /\ ResolvedAs(u) /\ MissingSid(event) /\ ~StorageFailed)
          => LET items == outcome.response.body.items
             IN /\ Status = 200
                /\ outcome.response.body.kind = "items"
                /\ {Answered(items[i]) : i \in 1..Len(items)} = LedgerOf(u)
                /\ Len(items) = Cardinality(LedgerOf(u))
                /\ \A i \in 1..Len(items) : items[i].user_id = u
C2_Witness ==
    /\ handler = "get" /\ ResolvedAs("u1") /\ MissingSid(event) /\ Status = 200
    /\ Len(outcome.response.body.items) = 1
    /\ \E s \in Sids : table[<<"u2", s>>] # NoItem

\* C3 -- an event with missing or invalid identity (no claims, no bearer
\* header, or a malformed token) gets 401 from every handler, whatever its
\* path parameters and body, and no storage call is made.
HasClaimsSub(ev) ==
    /\ ev.requestContext = "dict" /\ ev.authorizer = "dict" /\ ev.claims = "dict"
    /\ ev.sub \notin {"absent", ""}
HasBearerSub(ev) ==
    /\ ev.headers = "dict" /\ ev.auth = "Bearer" /\ ev.segs = 3 /\ ev.plen % 4 # 1
    /\ ev.pjson = "object" /\ ev.psub \notin {"absent", ""}
C3_Unauthorized ==
    (Invoked /\ ~HasClaimsSub(event) /\ ~HasBearerSub(event))
        => (Status = 401 /\ outcome.ops = <<>>)

\* C4 -- every response of every handler, the 400, 401, 404 and 500 ones
\* included, carries the permissive CORS headers.
C4_CorsOnEveryPath == Invoked => CORS \subseteq outcome.response.headers

\* C5 -- the three handlers resolve the identity alike: the claims' non-empty
\* sub first, else the sub of a three-segment bearer token, else Unauthorized.
\* (Stated for the events none of whose fields is null.)
NoNullField(ev) ==
    /\ "null" \notin {ev.requestContext, ev.authorizer, ev.claims, ev.headers, ev.pathParameters}
    /\ ev.body.kind # "null"
C5_SameIdentity ==
    (Invoked /\ NoNullField(event))
        => IF HasClaimsSub(event) THEN ResolvedAs(event.sub)
           ELSE IF HasBearerSub(event) THEN ResolvedAs(event.psub)
           ELSE outcome.uid.exc = "ValueError" /\ Status = 401

\* C6 -- a Write or Delete whose identity resolves and whose settlement_id is
\* missing gets 400 and issues no put or delete: the table is as it was,
\* whatever the body.
C6_MissingSettlementId ==
    [][(handler' \in {"save", "delete"} /\ outcome'.uid.exc = "none" /\ MissingSid(event'))
          => (outcome'.response.statusCode = 400 /\ outcome'.ops = <<>> /\ table' = table)]_vars
C6_Witness ==
    /\ handler = "save" /\ Resolved /\ event.pathParameters = "dict" /\ event.settlement_id = ""
    /\ ValidJson(event) /\ Status = 400 /\ table # EmptyTable

\* C7 -- a Write whose identity resolves, with a settlement_id and a body that
\* is not valid JSON, gets 400 and the table is as it was.
C7_MalformedJson ==
    [][(handler' = "save" /\ outcome'.uid.exc = "none" /\ ~MissingSid(event') /\ InvalidJson(event'))
          => (outcome'.response.statusCode = 400 /\ outcome'.ops = <<>> /\ table' = table)]_vars
C7_Witness ==
    /\ handler = "save" /\ InvalidJson(event) /\ Status = 400
    /\ \E u \in Users, s \in Sids :
          ResolvedAs(u) /\ RequestedSid(s) /\ table[<<u, s>>] # NoItem

\* C8 -- a Delete by u of an s that has no record returns 200 and leaves the
\* table as it was, so any number of repeats do; after a Delete answered 200 the
\* key has no record and a Read of it by u returns 404.
C8_DeleteIdempotent ==
    [][\A u \in Users, s \in Sids :
          LET acted(h) == /\ handler' = h
                          /\ outcome'.uid = Return(u)
                          /\ event'.pathParameters = "dict" /\ event'.settlement_id = s
                          /\ \A i \in 1..Len(outcome'.ops) : outcome'.ops[i].served
          IN /\ (acted("delete") /\ table[<<u, s>>] = NoItem)
                    => (outcome'.response.statusCode = 200 /\ table' = table)
             /\ acted("delete")
                    => (outcome'.response.statusCode = 200 /\ table'[<<u, s>>] = NoItem)
             /\ (acted("get") /\ handler = "delete" /\ Status = 200
                   /\ outcome.response.body.user_id = u
                   /\ outcome.response.body.settlement_id = s)
                    => outcome'.response.statusCode = 404]_vars
C8_Witness ==
    /\ handler = "delete" /\ Status = 200 /\ ResolvedAs("u1") /\ RequestedSid("s2")
    /\ table[<<"u1", "s1">>] # NoItem /\ now = 1

\* C9 -- every invocation ends with a response whose statusCode is one of 200,
\* 400, 401, 404, 500, whatever the event and the storage outcome; a failed
\* storage call gives 500 and is the only call made.
C9_NoEscape ==
    Invoked => /\ Status \in {200, 400, 401, 404, 500}
               /\ Len(outcome.ops) <= 1
               /\ StorageFailed => Status = 500
C9_Witness ==
    /\ handler = "delete" /\ event.requestContext = "null" /\ event.body.kind = "null"
    /\ Status = 500

\* C10 -- an invocation makes at most one storage call, and the record at
\* (u, s) changes only by a Write or Delete resolved as u for settlement s;
\* a Read changes nothing.
C10_Frame ==
    [][/\ Len(outcome'.ops) <= 1
       /\ \A k \in Keys :
            table'[k] # table[k]
              => /\ handler' \in {"save", "delete"}
                 /\ outcome'.uid = Return(k[1])
                 /\ event'.pathParameters = "dict" /\ event'.settlement_id = k[2]
       /\ handler' = "get" => table' = table]_vars
C10_Witness ==
    /\ handler = "save" /\ Status = 200 /\ ResolvedAs("u1")
    /\ \E s \in Sids : table[<<"u2", s>>] # NoItem

====
